---- MODULE Spec2Model ----
(***************************************************************************)
(* Edda: the styled-text editing engine of edda_core.                      *)
(*                                                                         *)
(* A StyledParagraph is a Vec<StyledText> (field `raw`); a StyledText is   *)
(* a text String with a Style.  Texts are modelled as sequences of bytes,  *)
(* as Rust's String is: `find` yields byte offsets and slices are taken at *)
(* byte offsets.  Run indices are 1-based here (TLA+ sequences), byte      *)
(* offsets are 0-based as in the source.                                   *)
(***************************************************************************)
EXTENDS Integers, Sequences, FiniteSets, TLC

\* a StyledParagraph in the hands of a caller
VARIABLES raw, pre, call, result, output

\* a StyledText in the hands of a caller
VARIABLES st, st_pre, cmd, st_result, st_out

\* a Document in the hands of a caller
VARIABLES content, metadata, doc_pre, doc_call, doc_result, doc_out, doc_info,
          docx

\* a Style of the legacy filemgr crate in the hands of a caller
VARIABLES lg, lg_pre, lg_cmd, lg_result

\* a question dialog after question() returned: the holder of the callback,
\* the arguments the callback was invoked with, the number of destroy()
\* calls on the dialog, and the responses delivered so far
VARIABLES holder, invoked, destroys, responses

paraVars == <<raw, pre, call, result, output>>

legacyVars == <<lg, lg_pre, lg_cmd, lg_result>>

dialogVars == <<holder, invoked, destroys, responses>>

styleVars == <<st, st_pre, cmd, st_result, st_out>>

docVars ==
    <<content, metadata, doc_pre, doc_call, doc_result, doc_out, doc_info,
      docx>>

vars == <<paraVars, styleVars, docVars, legacyVars, dialogVars>>

(***************************************************************************)
(* Bounds of the model.                                                    *)
(***************************************************************************)
\* largest number of runs add/insert build a paragraph to
MaxRuns == 2
\* largest number of bytes of text add/insert put into one paragraph
MaxTotalLen == 3

\* the most bytes a paragraph of multi-byte text holds, and a chunk on it
MaxUtf8Len == 4

\* the most paragraphs a document is given
MaxParagraphs == 3

(***************************************************************************)
(* Texts.                                                                  *)
(***************************************************************************)
Bytes == {"a", "b"}

\* bytes that continue a multi-byte character: none in the ASCII alphabet;
\* "a9" is the second byte of the two-byte character c3 a9
ContinuationBytes == {"a9"}

\* the characters of the multi-byte alphabet, as their UTF-8 bytes
Chars == {<<"a">>, <<"c3", "a9">>}

\* the strings of at most n bytes over Chars: a String is a sequence of
\* whole characters
RECURSIVE Utf8Texts(_)
Utf8Texts(n) ==
    {<<>>} \cup UNION {{c \o t : t \in Utf8Texts(n - Len(c))} :
                          c \in {ch \in Chars : Len(ch) <= n}}

\* str::chars().count()
CharCount(text) ==
    Cardinality({i \in 1..Len(text) : text[i] \notin ContinuationBytes})

Texts(n) == UNION {[1..k -> Bytes] : k \in 0..n}

Min(S) == CHOOSE x \in S : \A y \in S : x <= y

NotFound == -1

\* mutant: str::rfind, the byte offset of the last occurrence
Find_Last(hay, needle) ==
    LET offs == {i \in 0..(Len(hay) - Len(needle)) :
                    SubSeq(hay, i + 1, i + Len(needle)) = needle}
    IN IF offs = {} THEN -1 ELSE CHOOSE x \in offs : \A y \in offs : x >= y

\* str::find: the byte offset of the first occurrence of needle, or None
Find(hay, needle) ==
    LET offs == {i \in 0..(Len(hay) - Len(needle)) :
                    SubSeq(hay, i + 1, i + Len(needle)) = needle}
    IN IF offs = {} THEN NotFound ELSE Min(offs)

\* str::is_char_boundary
IsCharBoundary(text, off) ==
    \/ off = 0
    \/ off = Len(text)
    \/ off \in 1..(Len(text) - 1) /\ text[off + 1] \notin ContinuationBytes

\* &text[from..to]
Slice(text, from, to) == SubSeq(text, from + 1, to)

(***************************************************************************)
(* Style and StyledText.                                                   *)
(***************************************************************************)
Style_new ==
    [bold |-> FALSE, italic |-> FALSE, underline |-> "None", size |-> 11,
     font |-> "Arial", font_color |-> "#000000", highlight_color |-> "None"]

switch_bold(s) == [s EXCEPT !.bold = ~s.bold]

switch_italic(s) == [s EXCEPT !.italic = ~s.italic]

StyledText_new(text, style) == [text |-> text, style |-> style]

\* the styles callers give the runs they add or insert
RunStyles == {Style_new, switch_bold(Style_new)}

\* the styles callers restyle chunks with
ModStyles == {switch_bold(Style_new)}

(***************************************************************************)
(* Results of the paragraph operations.                                    *)
(***************************************************************************)
Ok == [kind |-> "Ok", chunk |-> <<>>]

EmptyChunk == [kind |-> "EmptyChunk", chunk |-> <<>>]

\* mutant: the error does not carry the chunk
ChunkNotFound_NoChunk(chunk) == [kind |-> "ChunkNotFound", chunk |-> <<>>]

ChunkNotFound(chunk) == [kind |-> "ChunkNotFound", chunk |-> chunk]

Panic == [kind |-> "Panic", chunk |-> <<>>]

(***************************************************************************)
(* Vec operations.                                                         *)
(***************************************************************************)
\* mutant: the range idx..idx in place of idx..=idx removes nothing
Splice_Exclusive(p, from, to, replacements) ==
    SubSeq(p, 1, from - 1) \o replacements \o SubSeq(p, to, Len(p))

\* Vec::splice(from..=to, replacements), from and to 1-based
Splice(p, from, to, replacements) ==
    SubSeq(p, 1, from - 1) \o replacements \o SubSeq(p, to + 1, Len(p))

\* mutant: the new element takes the place of the one at idx
VecInsert_Overwrite(p, idx, new) ==
    SubSeq(p, 1, idx) \o <<new>> \o SubSeq(p, idx + 2, Len(p))

\* Vec::insert(idx, new), idx 0-based and at most Len(p)
VecInsert(p, idx, new) ==
    SubSeq(p, 1, idx) \o <<new>> \o SubSeq(p, idx + 1, Len(p))

RECURSIVE FullTextFrom(_, _)
FullTextFrom(p, i) ==
    IF i > Len(p) THEN <<>> ELSE p[i].text \o FullTextFrom(p, i + 1)

\* self.raw.iter().map(|st| st.text.as_str()).collect()
FullText(p) == FullTextFrom(p, 1)

(***************************************************************************)
(* StyledParagraph::modify                                                 *)
(***************************************************************************)
Max(S) == CHOOSE x \in S : \A y \in S : x >= y

\* mutant: the last run whose text holds chunk
ModifyFind_Last(p, chunk) ==
    LET hits == {n \in 1..Len(p) : Find(p[n].text, chunk) # NotFound}
    IN IF hits = {} THEN NotFound ELSE Max(hits)

\* mutant: the last run is never looked at
ModifyFind_SkipsLast(p, chunk) ==
    LET hits == {n \in 1..(Len(p) - 1) : Find(p[n].text, chunk) # NotFound}
    IN IF hits = {} THEN NotFound ELSE Min(hits)

\* find_map over the runs: the first run whose text holds chunk, or None
ModifyFind(p, chunk) ==
    LET hits == {n \in 1..Len(p) : Find(p[n].text, chunk) # NotFound}
    IN IF hits = {} THEN NotFound ELSE Min(hits)

\* mutant: the suffix takes the new style
ModifyReplacements_SuffixNewStyle(original, start_offset, style, chunk) ==
    LET end_offset == start_offset + Len(chunk)
        prefix_text == Slice(original.text, 0, start_offset)
        suffix_text == Slice(original.text, end_offset, Len(original.text))
    IN (IF prefix_text # <<>>
          THEN <<StyledText_new(prefix_text, original.style)>> ELSE <<>>)
       \o <<StyledText_new(chunk, style)>>
       \o (IF suffix_text # <<>>
             THEN <<StyledText_new(suffix_text, style)>> ELSE <<>>)

\* mutant: the prefix takes the new style
ModifyReplacements_PrefixNewStyle(original, start_offset, style, chunk) ==
    LET end_offset == start_offset + Len(chunk)
        prefix_text == Slice(original.text, 0, start_offset)
        suffix_text == Slice(original.text, end_offset, Len(original.text))
    IN (IF prefix_text # <<>>
          THEN <<StyledText_new(prefix_text, style)>> ELSE <<>>)
       \o <<StyledText_new(chunk, style)>>
       \o (IF suffix_text # <<>>
             THEN <<StyledText_new(suffix_text, original.style)>> ELSE <<>>)

\* mutant: the text after the chunk is dropped
ModifyReplacements_DropsSuffix(original, start_offset, style, chunk) ==
    LET prefix_text == Slice(original.text, 0, start_offset)
    IN (IF prefix_text # <<>>
          THEN <<StyledText_new(prefix_text, original.style)>> ELSE <<>>)
       \o <<StyledText_new(chunk, style)>>

\* mutant: the prefix is pushed without the is_empty test
ModifyReplacements_KeepsEmptyPrefix(original, start_offset, style, chunk) ==
    LET end_offset == start_offset + Len(chunk)
        prefix_text == Slice(original.text, 0, start_offset)
        suffix_text == Slice(original.text, end_offset, Len(original.text))
    IN <<StyledText_new(prefix_text, original.style)>>
       \o <<StyledText_new(chunk, style)>>
       \o (IF suffix_text # <<>>
             THEN <<StyledText_new(suffix_text, original.style)>> ELSE <<>>)

\* the prefix / chunk / suffix runs that replace the matched run
ModifyReplacements(original, start_offset, style, chunk) ==
    LET end_offset == start_offset + Len(chunk)
        prefix_text == Slice(original.text, 0, start_offset)
        suffix_text == Slice(original.text, end_offset, Len(original.text))
    IN (IF prefix_text # <<>>
          THEN <<StyledText_new(prefix_text, original.style)>> ELSE <<>>)
       \o <<StyledText_new(chunk, style)>>
       \o (IF suffix_text # <<>>
             THEN <<StyledText_new(suffix_text, original.style)>> ELSE <<>>)

\* mutant: the end of the chunk is taken start_offset plus its number of
\* characters, not of bytes
ModifySearchAndSplit_CharCount(p, style, chunk) ==
    LET idx == ModifyFind(p, chunk) IN
      IF idx = NotFound THEN [raw |-> p, result |-> ChunkNotFound(chunk)]
      ELSE LET start_offset == Find(p[idx].text, chunk)
               end_offset == start_offset + CharCount(chunk)
           IN IF ~(IsCharBoundary(p[idx].text, start_offset)
                   /\ IsCharBoundary(p[idx].text, end_offset))
                THEN [raw |-> p, result |-> Panic]
                ELSE [raw |-> Splice(p, idx, idx,
                          ModifyReplacements(p[idx], start_offset, style, chunk)),
                      result |-> Ok]

\* modify from the search on: the search, the split and the splice
ModifySearchAndSplit(p, style, chunk) ==
    LET idx == ModifyFind(p, chunk) IN
      IF idx = NotFound THEN [raw |-> p, result |-> ChunkNotFound(chunk)]
      ELSE LET start_offset == Find(p[idx].text, chunk)
               end_offset == start_offset + Len(chunk)
           IN IF ~(IsCharBoundary(p[idx].text, start_offset)
                   /\ IsCharBoundary(p[idx].text, end_offset))
                THEN [raw |-> p, result |-> Panic]
                ELSE [raw |-> Splice(p, idx, idx,
                          ModifyReplacements(p[idx], start_offset, style, chunk)),
                      result |-> Ok]

\* mutant: no is_empty test on the chunk
Modify_NoEmptyCheck(p, style, chunk) == ModifySearchAndSplit(p, style, chunk)

Modify(p, style, chunk) ==
    IF chunk = <<>> THEN [raw |-> p, result |-> EmptyChunk]
    ELSE ModifySearchAndSplit(p, style, chunk)

(***************************************************************************)
(* StyledParagraph::modify_spanning                                        *)
(***************************************************************************)
None == <<>>

RECURSIVE FindStart_AbsoluteOffset(_, _, _, _)
\* mutant: the offset in the run is not made relative to the run's start
FindStart_AbsoluteOffset(p, start_idx, cumulative_len, absolute_start_offset) ==
    IF start_idx > Len(p) THEN None
    ELSE IF absolute_start_offset < cumulative_len + Len(p[start_idx].text)
      THEN <<start_idx, absolute_start_offset>>
      ELSE FindStart_AbsoluteOffset(p, start_idx + 1,
                     cumulative_len + Len(p[start_idx].text),
                     absolute_start_offset)

RECURSIVE FindStart(_, _, _, _)
\* the loop over (start_idx, seg): the run holding absolute_start_offset
FindStart(p, start_idx, cumulative_len, absolute_start_offset) ==
    IF start_idx > Len(p) THEN None
    ELSE IF absolute_start_offset < cumulative_len + Len(p[start_idx].text)
      THEN <<start_idx, absolute_start_offset - cumulative_len>>
      ELSE FindStart(p, start_idx + 1, cumulative_len + Len(p[start_idx].text),
                     absolute_start_offset)

RECURSIVE FindEnd_Strict(_, _, _, _)
\* mutant: < in place of <= when looking for the run the chunk ends in
FindEnd_Strict(p, end_idx, end_cumulative_len, absolute_end_offset) ==
    IF end_idx > Len(p) THEN None
    ELSE IF absolute_end_offset < end_cumulative_len + Len(p[end_idx].text)
      THEN <<end_idx, absolute_end_offset - end_cumulative_len>>
      ELSE FindEnd_Strict(p, end_idx + 1,
                   end_cumulative_len + Len(p[end_idx].text),
                   absolute_end_offset)

RECURSIVE FindEnd(_, _, _, _)
\* the loop over (end_idx, end_seg): the run holding absolute_end_offset
FindEnd(p, end_idx, end_cumulative_len, absolute_end_offset) ==
    IF end_idx > Len(p) THEN None
    ELSE IF absolute_end_offset <= end_cumulative_len + Len(p[end_idx].text)
      THEN <<end_idx, absolute_end_offset - end_cumulative_len>>
      ELSE FindEnd(p, end_idx + 1, end_cumulative_len + Len(p[end_idx].text),
                   absolute_end_offset)

\* the search over the concatenated text, made when the segment at hand
\* does not hold the chunk
SpanningSearch(p, chunk) ==
    LET full_text == FullText(p)
        absolute_start_offset == Find(full_text, chunk)
    IN IF absolute_start_offset # NotFound
         THEN LET start_info == FindStart(p, 1, 0, absolute_start_offset)
              IN [start_info |-> start_info,
                  end_info |-> IF start_info = None THEN None
                               ELSE FindEnd(p, 1, 0,
                                        absolute_start_offset + Len(chunk)),
                  err |-> FALSE]
         ELSE [start_info |-> None, end_info |-> None, err |-> TRUE]

\* the for loop over the segments.  Every path through its first iteration
\* leaves the loop (break or return), so only the first segment is visited.
SpanningLocate(p, chunk) ==
    IF Len(p) = 0 THEN [start_info |-> None, end_info |-> None, err |-> FALSE]
    ELSE LET idx == 1
             segment_len == Len(p[idx].text)
             relative_start == Find(p[idx].text, chunk)
         IN IF relative_start # NotFound
               /\ relative_start + Len(chunk) <= segment_len
              THEN [start_info |-> <<idx, relative_start>>,
                    end_info |-> <<idx, relative_start + Len(chunk)>>,
                    err |-> FALSE]
              ELSE SpanningSearch(p, chunk)

\* mutant: the prefix is pushed without the test on the start offset
SpanningReplacements_KeepsEmptyPrefix(p, start_info, end_info, style, chunk) ==
    LET start_segment == p[start_info[1]]
        end_segment == p[end_info[1]]
    IN <<StyledText_new(Slice(start_segment.text, 0, start_info[2]),
                        start_segment.style)>>
       \o <<StyledText_new(chunk, style)>>
       \o (IF end_info[2] < Len(end_segment.text)
             THEN <<StyledText_new(Slice(end_segment.text, end_info[2],
                                         Len(end_segment.text)),
                                   end_segment.style)>>
             ELSE <<>>)

\* mutant: the suffix is pushed without the length test
SpanningReplacements_KeepsEmptySuffix(p, start_info, end_info, style, chunk) ==
    LET start_segment == p[start_info[1]]
        end_segment == p[end_info[1]]
    IN (IF start_info[2] > 0
          THEN <<StyledText_new(Slice(start_segment.text, 0, start_info[2]),
                                start_segment.style)>>
          ELSE <<>>)
       \o <<StyledText_new(chunk, style)>>
       \o <<StyledText_new(Slice(end_segment.text, end_info[2],
                                 Len(end_segment.text)),
                           end_segment.style)>>

\* mutant: the suffix takes the start run's style
SpanningReplacements_SuffixStartStyle(p, start_info, end_info, style, chunk) ==
    LET start_segment == p[start_info[1]]
        end_segment == p[end_info[1]]
    IN (IF start_info[2] > 0
          THEN <<StyledText_new(Slice(start_segment.text, 0, start_info[2]),
                                start_segment.style)>>
          ELSE <<>>)
       \o <<StyledText_new(chunk, style)>>
       \o (IF end_info[2] < Len(end_segment.text)
             THEN <<StyledText_new(Slice(end_segment.text, end_info[2],
                                         Len(end_segment.text)),
                                   start_segment.style)>>
             ELSE <<>>)

\* the prefix / chunk / suffix runs that replace runs start_idx..=end_idx
SpanningReplacements(p, start_info, end_info, style, chunk) ==
    LET start_segment == p[start_info[1]]
        end_segment == p[end_info[1]]
    IN (IF start_info[2] > 0
          THEN <<StyledText_new(Slice(start_segment.text, 0, start_info[2]),
                                start_segment.style)>>
          ELSE <<>>)
       \o <<StyledText_new(chunk, style)>>
       \o (IF end_info[2] < Len(end_segment.text)
             THEN <<StyledText_new(Slice(end_segment.text, end_info[2],
                                         Len(end_segment.text)),
                                   end_segment.style)>>
             ELSE <<>>)

ModifySpanning(p, style, chunk) ==
    IF chunk = <<>> THEN [raw |-> p, result |-> EmptyChunk]
    ELSE LET loc == SpanningLocate(p, chunk) IN
      IF loc.err \/ loc.start_info = None \/ loc.end_info = None
        THEN [raw |-> p, result |-> ChunkNotFound(chunk)]
      ELSE IF ~(IsCharBoundary(p[loc.start_info[1]].text, loc.start_info[2])
                /\ IsCharBoundary(p[loc.end_info[1]].text, loc.end_info[2]))
        THEN [raw |-> p, result |-> Panic]
      ELSE [raw |-> Splice(p, loc.start_info[1], loc.end_info[1],
                        SpanningReplacements(p, loc.start_info, loc.end_info,
                                             style, chunk)),
            result |-> Ok]

(***************************************************************************)
(* Style: the mutators, the two validations and the canonical tag.  A     *)
(* Result is a record: ok with the Style, or not ok with the StyleError.   *)
(* Strings of the program are strings here; the byte length of a string is *)
(* its length, every string drawn below being ASCII.                       *)
(***************************************************************************)
\* Ok(()) of change_style
StyleOk == [kind |-> "Ok", arg |-> "", cause |-> ""]

UnderlineStyles ==
    {"Single", "Words", "Double", "Thick", "Dotted", "DottedHeavy", "Dash",
     "DashedHeavy", "DashLong", "DashLongHeavy", "DotDash", "DashDotHeavy",
     "DotDotDash", "DashDotDotHeavy", "Wave", "WavyHeavy", "WavyDouble"}

\* Display for UnderlineStyle
UnderlineStyle_fmt(u) ==
    CASE u = "Single" -> "single"
      [] u = "Words" -> "words"
      [] u = "Double" -> "double"
      [] u = "Thick" -> "thick"
      [] u = "Dotted" -> "dotted"
      [] u = "DottedHeavy" -> "dottedHeavy"
      [] u = "Dash" -> "dash"
      [] u = "DashedHeavy" -> "dashedHeavy"
      [] u = "DashLong" -> "dashLong"
      [] u = "DashLongHeavy" -> "dashLongHeavy"
      [] u = "DotDash" -> "dotDash"
      [] u = "DashDotHeavy" -> "dashDotHeavy"
      [] u = "DotDotDash" -> "dotDotDash"
      [] u = "DashDotDotHeavy" -> "dashDotDotHeavy"
      [] u = "Wave" -> "wave"
      [] u = "WavyHeavy" -> "wavyHeavy"
      [] u = "WavyDouble" -> "wavyDouble"

\* Display for Style, with the highlight written before the underline
Style_fmt_HighlightFirst(s) ==
    (IF s.bold THEN "bold;" ELSE "")
    \o (IF s.italic THEN "italic;" ELSE "")
    \o (IF s.highlight_color # "None"
          THEN "hc(" \o s.highlight_color \o ");" ELSE "")
    \o (IF s.underline # "None"
          THEN "underline(" \o UnderlineStyle_fmt(s.underline) \o ");" ELSE "")
    \o "pt(" \o ToString(s.size) \o ");" \o s.font
    \o ";fc(" \o s.font_color \o ")"

\* Display for Style
Style_fmt(s) ==
    (IF s.bold THEN "bold;" ELSE "")
    \o (IF s.italic THEN "italic;" ELSE "")
    \o (IF s.underline # "None"
          THEN "underline(" \o UnderlineStyle_fmt(s.underline) \o ");" ELSE "")
    \o (IF s.highlight_color # "None"
          THEN "hc(" \o s.highlight_color \o ");" ELSE "")
    \o "pt(" \o ToString(s.size) \o ");" \o s.font
    \o ";fc(" \o s.font_color \o ")"

set_underline(s, style) == [s EXCEPT !.underline = style]

change_size(s, new_size) == [s EXCEPT !.size = new_size]

InvalidHexColor(s) == [kind |-> "InvalidHexColor", arg |-> s, cause |-> ""]

FontNotFound(s) == [kind |-> "FontNotFound", arg |-> s, cause |-> ""]

FontQueryError(s, e) == [kind |-> "FontQueryError", arg |-> s, cause |-> e]

OkStyle(s) == [ok |-> TRUE, style |-> s]

Err(e) == [ok |-> FALSE, err |-> e]

starts_with(s, c) == Len(s) >= 1 /\ SubSeq(s, 1, 1) = c

\* char::is_ascii_hexdigit
is_ascii_hexdigit(c) ==
    c \in {"0", "1", "2", "3", "4", "5", "6", "7", "8", "9",
           "a", "b", "c", "d", "e", "f", "A", "B", "C", "D", "E", "F"}

\* check_hex without its look at the digits
check_hex_LengthOnly(s) ==
    IF ~starts_with(s, "#") THEN InvalidHexColor(s)
    ELSE LET hex_part == SubSeq(s, 2, Len(s))
         IN IF ~(Len(hex_part) = 6 \/ Len(hex_part) = 8)
              THEN InvalidHexColor(s)
              ELSE StyleOk

check_hex(s) ==
    IF ~starts_with(s, "#") THEN InvalidHexColor(s)
    ELSE LET hex_part == SubSeq(s, 2, Len(s))
         IN IF ~(Len(hex_part) = 6 \/ Len(hex_part) = 8)
              THEN InvalidHexColor(s)
            ELSE IF ~(\A i \in 1..Len(hex_part) :
                        is_ascii_hexdigit(SubSeq(hex_part, i, i)))
              THEN InvalidHexColor(s)
            ELSE StyleOk

\* check_font with every failure of the query reported as a font not found
check_font_AllNotFound(s, oracle) ==
    IF oracle = "Ok" THEN StyleOk ELSE FontNotFound(s)

\* check_font; oracle is what select_family_by_name answers
check_font(s, oracle) ==
    CASE oracle = "Ok" -> StyleOk
      [] oracle = "NotFound" -> FontNotFound(s)
      [] OTHER -> FontQueryError(s, oracle)

change_font_color(s, new_color) ==
    LET c == check_hex(new_color)
    IN IF c # StyleOk THEN Err(c)
       ELSE OkStyle([s EXCEPT !.font_color = new_color])

\* change_font_highlight storing the colour without validating it
change_font_highlight_Unchecked(s, new_color) ==
    OkStyle([s EXCEPT !.highlight_color = new_color])

change_font_highlight(s, new_color) ==
    LET c == IF new_color # "None" THEN check_hex(new_color) ELSE StyleOk
    IN IF c # StyleOk THEN Err(c)
       ELSE OkStyle([s EXCEPT !.highlight_color = new_color])

change_font(s, new_font, oracle) ==
    LET c == check_font(new_font, oracle)
    IN IF c # StyleOk THEN Err(c)
       ELSE OkStyle([s EXCEPT !.font = new_font])

\* the match of change_style: the mutator the command selects, on a clone
ApplyCommand(s, command) ==
    CASE command.kind = "Bold" -> OkStyle(switch_bold(s))
      [] command.kind = "Italic" -> OkStyle(switch_italic(s))
      [] command.kind = "Underline" -> OkStyle(set_underline(s, command.arg))
      [] command.kind = "Size" -> OkStyle(change_size(s, command.size))
      [] command.kind = "Color" -> change_font_color(s, command.arg)
      [] command.kind = "Highlight" -> change_font_highlight(s, command.arg)
      [] command.kind = "Font" -> change_font(s, command.arg, command.oracle)

\* change_style writing the rejected value into the style before returning
\* the error
change_style_AssignsOnError(t, command) ==
    LET r == ApplyCommand(t.style, command)
    IN IF r.ok THEN [st |-> [t EXCEPT !.style = r.style], result |-> StyleOk]
       ELSE [st |-> [t EXCEPT !.style =
                       CASE command.kind = "Color" ->
                              [t.style EXCEPT !.font_color = command.arg]
                         [] command.kind = "Highlight" ->
                              [t.style EXCEPT !.highlight_color = command.arg]
                         [] OTHER -> [t.style EXCEPT !.font = command.arg]],
             result |-> r.err]

\* StyledText::change_style: `?` returns the error before the assignment
change_style(t, command) ==
    LET r == ApplyCommand(t.style, command)
    IN IF r.ok THEN [st |-> [t EXCEPT !.style = r.style], result |-> StyleOk]
       ELSE [st |-> t, result |-> r.err]

\* the String a byte sequence of the model stands for
RECURSIVE Str(_)
Str(text) == IF text = <<>> THEN "" ELSE Head(text) \o Str(Tail(text))

\* StyledText::apply_style_tagging
apply_style_tagging(t) ==
    "[[" \o Style_fmt(t.style) \o "]]" \o Str(t.text)
    \o "[[/" \o Style_fmt(t.style) \o "]]"

\* parse_as_raw_tagged_text with a space written between two runs
RECURSIVE parse_as_raw_tagged_text_Separated(_)
parse_as_raw_tagged_text_Separated(p) ==
    IF p = <<>> THEN ""
    ELSE IF Len(p) = 1 THEN apply_style_tagging(p[1])
    ELSE apply_style_tagging(Head(p)) \o " "
         \o parse_as_raw_tagged_text_Separated(Tail(p))

\* StyledParagraph::parse_as_raw_tagged_text: each run's tagging written to
\* the buffer, in order
RECURSIVE parse_as_raw_tagged_text(_)
parse_as_raw_tagged_text(p) ==
    IF p = <<>> THEN ""
    ELSE apply_style_tagging(Head(p)) \o parse_as_raw_tagged_text(Tail(p))

(***************************************************************************)
(* The paragraph as a state machine.  A caller holds the paragraph and     *)
(* makes one call at a time: an operation's action runs the whole call and *)
(* leaves, in pre, call and result, the run list before the call, the call *)
(* and the value it returned; Return is the caller taking that value, after *)
(* which it may make its next call.  A panic ends the caller.              *)
(***************************************************************************)
TotalLen(p) == Len(FullText(p))

Call(op, style, chunk, idx) ==
    [op |-> op, style |-> style, chunk |-> chunk, idx |-> idx]

Idle == Call("idle", Style_new, <<>>, 0)

\* the texts callers pass: runs' texts and chunks
AllTexts == Texts(MaxTotalLen)

\* the text of the StyledText the style commands are run on
SampleText == <<"a", "b">>

\* a StyleCommand, and with it the answer the font oracle gives during the
\* call (the state of the system's fonts is outside the program)
Command(kind, arg, size, oracle) ==
    [kind |-> kind, arg |-> arg, size |-> size, oracle |-> oracle]

NoCommand == Command("idle", "None", 0, "None")

\* Metadata::new: the title, every optional field absent
Metadata_new(title) ==
    [title |-> title, authors |-> "None", description |-> "None",
     category |-> "None", version |-> "None", status |-> "None",
     language |-> "None", keywords |-> "None"]

\* a call on a Document: the operation, its index and its tagged flag
DocCall(op, idx, tagged) ==
    [op |-> op, idx |-> idx, tagged |-> tagged, paragraph |-> <<>>,
     env |-> "None", chunk |-> <<>>]

DocIdle == DocCall("idle", 0, FALSE)

\* what a call on a Document returns: Option<StyledParagraph> or a
\* reference to one, or nothing of interest; a panic is recorded as a value
NoParagraph == [kind |-> "None", value |-> <<>>]

SomeParagraph(p) == [kind |-> "Some", value |-> p]

DocUnit == [kind |-> "Unit", value |-> <<>>]

DocPanic == [kind |-> "Panic", value |-> <<>>]

\* what paragraph_count and is_empty return; NoInfo when neither was called
Info(count, empty) == [count |-> count, empty |-> empty]

NoInfo == Info(0, FALSE)

\* what save_as_docx hands to the encoder: nothing while pack was not
\* called, else the paragraphs of the built Docx, each a sequence of runs
NoDocx == [called |-> FALSE, paragraphs |-> <<>>]

Docx(paragraphs) == [called |-> TRUE, paragraphs |-> paragraphs]

\* StyledParagraph::new
InitParagraph ==
    /\ raw = <<>>
    /\ pre = <<>>
    /\ call = Call("new", Style_new, <<>>, 0)
    /\ result = Ok
    /\ output = ""

\* StyledText::new(text, Style::new())
InitStyledText ==
    /\ st = StyledText_new(SampleText, Style_new)
    /\ st_pre = st
    /\ cmd = NoCommand
    /\ st_result = StyleOk
    /\ st_out = ""

\* Document::new("Untitled")
InitDocument ==
    /\ content = <<>>
    /\ metadata = Metadata_new("Untitled")
    /\ doc_pre = [content |-> content, metadata |-> metadata]
    /\ doc_call = DocIdle
    /\ doc_result = DocUnit
    /\ doc_out = ""
    /\ doc_info = NoInfo
    /\ docx = NoDocx

\* Style::new of the legacy filemgr crate
LegacyStyle_new ==
    [bold |-> FALSE, italic |-> FALSE, underline |-> FALSE, size |-> 11,
     font |-> "Arial", font_color |-> "#FFFFFF", highlight_color |-> "None"]

InitLegacy ==
    /\ lg = LegacyStyle_new
    /\ lg_pre = lg
    /\ lg_cmd = NoCommand
    /\ lg_result = "Ok"

\* question(): the callback is put in the holder and the dialog presented
InitDialog ==
    /\ holder = "Some"
    /\ invoked = <<>>
    /\ destroys = 0
    /\ responses = <<>>

Init ==
    /\ InitParagraph
    /\ InitStyledText
    /\ InitDocument
    /\ InitLegacy
    /\ InitDialog

\* the caller is between two calls
Ready == call = Idle

Return ==
    /\ call # Idle
    /\ result.kind # "Panic"
    /\ call' = Idle
    /\ pre' = <<>>
    /\ result' = Ok
    /\ output' = ""
    /\ UNCHANGED raw
    /\ UNCHANGED <<styleVars, docVars, legacyVars, dialogVars>>

\* StyledParagraph::add
Add ==
    /\ Ready
    /\ Len(raw) < MaxRuns
    /\ \E text \in AllTexts, style \in RunStyles :
         /\ Len(text) <= MaxTotalLen - TotalLen(raw)
         /\ call' = Call("add", style, text, Len(raw))
         /\ raw' = Append(raw, StyledText_new(text, style))
    /\ pre' = raw
    /\ result' = Ok
    /\ UNCHANGED <<output, styleVars, docVars, legacyVars, dialogVars>>

\* StyledParagraph::insert; an index past the end panics in Vec::insert
Insert ==
    /\ Ready
    /\ Len(raw) < MaxRuns
    /\ \E idx \in 0..(Len(raw) + 1), text \in AllTexts, style \in RunStyles :
         /\ Len(text) <= MaxTotalLen - TotalLen(raw)
         /\ call' = Call("insert", style, text, idx)
         /\ IF idx > Len(raw)
              THEN raw' = raw /\ result' = Panic
              ELSE /\ raw' = VecInsert(raw, idx, StyledText_new(text, style))
                   /\ result' = Ok
    /\ pre' = raw
    /\ UNCHANGED <<output, styleVars, docVars, legacyVars, dialogVars>>

ModifyCall ==
    /\ Ready
    /\ \E style \in ModStyles, chunk \in AllTexts :
         LET r == Modify(raw, style, chunk)
         IN /\ call' = Call("modify", style, chunk, 0)
            /\ raw' = r.raw
            /\ result' = r.result
    /\ pre' = raw
    /\ UNCHANGED <<output, styleVars, docVars, legacyVars, dialogVars>>

ModifySpanningCall ==
    /\ Ready
    /\ \E style \in ModStyles, chunk \in AllTexts :
         LET r == ModifySpanning(raw, style, chunk)
         IN /\ call' = Call("modify_spanning", style, chunk, 0)
            /\ raw' = r.raw
            /\ result' = r.result
    /\ pre' = raw
    /\ UNCHANGED <<output, styleVars, docVars, legacyVars, dialogVars>>

\* the caller makes the successful modify or modify_spanning once more,
\* with the same style and chunk, on the paragraph as the call left it
RepeatCall ==
    /\ call.op \in {"modify", "modify_spanning"}
    /\ result = Ok
    /\ LET r == IF call.op = "modify"
                  THEN Modify(raw, call.style, call.chunk)
                  ELSE ModifySpanning(raw, call.style, call.chunk)
       IN /\ raw' = r.raw
          /\ result' = r.result
    /\ call' = [call EXCEPT !.op = IF call.op = "modify"
                                     THEN "modify again"
                                     ELSE "modify_spanning again"]
    /\ pre' = raw
    /\ UNCHANGED <<output, styleVars, docVars, legacyVars, dialogVars>>

\* the same three calls on a paragraph of multi-byte text
AddUtf8 ==
    /\ Ready
    /\ Len(raw) < MaxRuns
    /\ \E text \in Utf8Texts(MaxUtf8Len), style \in RunStyles :
         /\ Len(text) <= MaxUtf8Len - TotalLen(raw)
         /\ call' = Call("add", style, text, Len(raw))
         /\ raw' = Append(raw, StyledText_new(text, style))
    /\ pre' = raw
    /\ result' = Ok
    /\ UNCHANGED <<output, styleVars, docVars, legacyVars, dialogVars>>

ModifyUtf8Call ==
    /\ Ready
    /\ \E style \in ModStyles, chunk \in Utf8Texts(MaxUtf8Len) :
         LET r == Modify(raw, style, chunk)
         IN /\ call' = Call("modify", style, chunk, 0)
            /\ raw' = r.raw
            /\ result' = r.result
    /\ pre' = raw
    /\ UNCHANGED <<output, styleVars, docVars, legacyVars, dialogVars>>

ModifySpanningUtf8Call ==
    /\ Ready
    /\ \E style \in ModStyles, chunk \in Utf8Texts(MaxUtf8Len) :
         LET r == ModifySpanning(raw, style, chunk)
         IN /\ call' = Call("modify_spanning", style, chunk, 0)
            /\ raw' = r.raw
            /\ result' = r.result
    /\ pre' = raw
    /\ UNCHANGED <<output, styleVars, docVars, legacyVars, dialogVars>>

NextUtf8 == AddUtf8 \/ ModifyUtf8Call \/ ModifySpanningUtf8Call \/ Return

SpecUtf8 == Init /\ [][NextUtf8]_vars

ParseAsRawTaggedTextCall ==
    /\ Ready
    /\ call' = Call("parse_as_raw_tagged_text", Style_new, <<>>, 0)
    /\ output' = parse_as_raw_tagged_text(raw)
    /\ pre' = raw
    /\ UNCHANGED <<raw, result>>
    /\ UNCHANGED <<styleVars, docVars, legacyVars, dialogVars>>

Next ==
    \/ Add
    \/ Insert
    \/ ModifyCall
    \/ ModifySpanningCall
    \/ ParseAsRawTaggedTextCall
    \/ RepeatCall
    \/ Return

Spec == Init /\ [][Next]_vars

(***************************************************************************)
(* What the claims are stated in: substring occurrence, the concatenated   *)
(* text and the run a byte of it lies in, written without the operators    *)
(* that model the code.                                                    *)
(***************************************************************************)
OccursAt(hay, needle, off) ==
    /\ off + Len(needle) <= Len(hay)
    /\ \A k \in 1..Len(needle) : hay[off + k] = needle[k]

Contains(hay, needle) == \E off \in 0..Len(hay) : OccursAt(hay, needle, off)

FirstOccurrence(hay, needle) ==
    CHOOSE off \in 0..Len(hay) :
        /\ OccursAt(hay, needle, off)
        /\ \A o \in 0..(off - 1) : ~OccursAt(hay, needle, o)

RECURSIVE Concat(_)
Concat(p) == IF p = <<>> THEN <<>> ELSE Head(p).text \o Concat(Tail(p))

LenBefore(p, i) == Len(Concat(SubSeq(p, 1, i - 1)))

\* the run that holds byte pos (0-based) of the concatenated text
RunOfByte(p, pos) ==
    CHOOSE i \in 1..Len(p) :
        LenBefore(p, i) <= pos /\ pos < LenBefore(p, i) + Len(p[i].text)

\* a run with this text and style, or nothing when the text is empty
Piece(text, style) ==
    IF text = <<>> THEN <<>> ELSE <<[text |-> text, style |-> style]>>

NoEmptyRun(p) == \A i \in 1..Len(p) : p[i].text # <<>>

IsModify == call.op = "modify"

IsSpanning == call.op = "modify_spanning"

\* the lowest-indexed run of p whose text contains chunk
FirstRunWith(p, chunk) ==
    CHOOSE i \in 1..Len(p) :
        /\ Contains(p[i].text, chunk)
        /\ \A j \in 1..(i - 1) : ~Contains(p[j].text, chunk)

InSomeRun(p, chunk) == \E i \in 1..Len(p) : Contains(p[i].text, chunk)

\* the run list modify is claimed to leave
ModifyExpected(p, style, chunk) ==
    LET i == FirstRunWith(p, chunk)
        off == FirstOccurrence(p[i].text, chunk)
    IN SubSeq(p, 1, i - 1)
       \o Piece(SubSeq(p[i].text, 1, off), p[i].style)
       \o <<[text |-> chunk, style |-> style]>>
       \o Piece(SubSeq(p[i].text, off + Len(chunk) + 1, Len(p[i].text)),
                p[i].style)
       \o SubSeq(p, i + 1, Len(p))

\* the first and the last byte of the first occurrence in the whole text
SpanFirst(p, chunk) == FirstOccurrence(Concat(p), chunk)

SpanLast(p, chunk) == SpanFirst(p, chunk) + Len(chunk) - 1

\* the run list modify_spanning is claimed to leave
SpanningExpected(p, style, chunk) ==
    LET s == RunOfByte(p, SpanFirst(p, chunk))
        e == RunOfByte(p, SpanLast(p, chunk))
    IN SubSeq(p, 1, s - 1)
       \o Piece(SubSeq(p[s].text, 1, SpanFirst(p, chunk) - LenBefore(p, s)),
                p[s].style)
       \o <<[text |-> chunk, style |-> style]>>
       \o Piece(SubSeq(p[e].text, SpanLast(p, chunk) - LenBefore(p, e) + 2,
                       Len(p[e].text)),
                p[e].style)
       \o SubSeq(p, e + 1, Len(p))

(***************************************************************************)
(* C1..C10                                                                 *)
(***************************************************************************)

\* C1: modify and modify_spanning, successful or failed, leave the in-order
\* concatenation of the runs' texts as it was before the call.
C1_TextPreserved ==
    (IsModify \/ IsSpanning) => Concat(raw) = Concat(pre)

\* a spanning call that succeeded and moved the run boundaries
C1_Witness ==
    /\ IsSpanning /\ result = Ok
    /\ Len(raw) # Len(pre)
    /\ Concat(pre) # <<>>

\* C2: a successful modify_spanning replaces the runs from the one holding
\* the first byte of the first occurrence to the one holding its last byte by
\* the start run's text before it (start run's style, omitted if empty), the
\* chunk with the new style, and the end run's text after it (end run's
\* style, omitted if empty); the runs outside are kept as they were.
C2_SpanningSplice ==
    (IsSpanning /\ result = Ok) =>
        raw = SpanningExpected(pre, call.style, call.chunk)

\* a successful spanning call whose occurrence covers a whole run between
\* its start run and its end run
C2_Witness ==
    /\ IsSpanning /\ result = Ok
    /\ RunOfByte(pre, SpanLast(pre, call.chunk))
         >= RunOfByte(pre, SpanFirst(pre, call.chunk)) + 2

\* C3: a successful modify replaces the lowest-indexed run containing chunk,
\* at chunk's first occurrence in it, by the text before (original style,
\* omitted if empty), chunk (new style) and the text after (original style,
\* omitted if empty): 1 run when the occurrence is the whole run, 2 when it
\* is at the run's start or end only, 3 when it is interior.
C3_ModifySplit ==
    (IsModify /\ result = Ok) =>
        LET i == FirstRunWith(pre, call.chunk)
            off == FirstOccurrence(pre[i].text, call.chunk)
            atStart == off = 0
            atEnd == off + Len(call.chunk) = Len(pre[i].text)
            pieces == Len(raw) - Len(pre) + 1
        IN /\ raw = ModifyExpected(pre, call.style, call.chunk)
           /\ (atStart /\ atEnd) => pieces = 1
           /\ (atStart /\ ~atEnd) \/ (~atStart /\ atEnd) => pieces = 2
           /\ (~atStart /\ ~atEnd) => pieces = 3

\* a successful modify of an interior chunk: one run became three
C3_Witness ==
    /\ IsModify /\ result = Ok
    /\ Len(raw) = Len(pre) + 2

\* C4: modify (chunk in no run) and modify_spanning (chunk not in the
\* concatenated text) with a non-empty chunk return ChunkNotFound carrying
\* the chunk and leave the run list as it was.
C4_NotFoundUnchanged ==
    /\ (IsModify /\ call.chunk # <<>> /\ ~InSomeRun(pre, call.chunk)) =>
           /\ result = [kind |-> "ChunkNotFound", chunk |-> call.chunk]
           /\ raw = pre
    /\ (IsSpanning /\ call.chunk # <<>>
            /\ ~Contains(Concat(pre), call.chunk)) =>
           /\ result = [kind |-> "ChunkNotFound", chunk |-> call.chunk]
           /\ raw = pre

\* a spanning call on a paragraph with text that does not hold the chunk
C4_Witness ==
    /\ IsSpanning /\ call.chunk # <<>>
    /\ Concat(pre) # <<>>
    /\ ~Contains(Concat(pre), call.chunk)

\* C5: modify and modify_spanning with the empty chunk return EmptyChunk,
\* whatever the paragraph holds, and leave the run list as it was.
C5_EmptyChunkRejected ==
    ((IsModify \/ IsSpanning) /\ call.chunk = <<>>) =>
        result = EmptyChunk /\ raw = pre

\* modify with the empty chunk on a paragraph with no runs
C5_Witness ==
    /\ IsModify /\ call.chunk = <<>>
    /\ pre = <<>>

\* C6: when the first occurrence of a non-empty chunk in the concatenated
\* text lies within one run, modify_spanning succeeds, and so does modify on
\* the same paragraph, with the same run list.
C6_SpanningDegenerates ==
    (/\ IsSpanning /\ call.chunk # <<>>
     /\ Contains(Concat(pre), call.chunk)
     /\ RunOfByte(pre, SpanFirst(pre, call.chunk))
          = RunOfByte(pre, SpanLast(pre, call.chunk)))
    => /\ result = Ok
       /\ Modify(pre, call.style, call.chunk) = [raw |-> raw, result |-> Ok]

\* a spanning call whose occurrence lies within one run after the first,
\* starting inside that run
C6_Witness ==
    /\ IsSpanning /\ call.chunk # <<>>
    /\ Contains(Concat(pre), call.chunk)
    /\ LET s == RunOfByte(pre, SpanFirst(pre, call.chunk))
       IN /\ s = RunOfByte(pre, SpanLast(pre, call.chunk))
          /\ s > 1
          /\ SpanFirst(pre, call.chunk) > LenBefore(pre, s)

\* C7: modify_spanning with a non-empty chunk returns ChunkNotFound exactly
\* when the concatenated text does not contain chunk, and succeeds otherwise.
C7_SpanningFoundIff ==
    (IsSpanning /\ call.chunk # <<>>) =>
        IF Contains(Concat(pre), call.chunk)
          THEN result = Ok
          ELSE result.kind = "ChunkNotFound"

\* a spanning call that succeeded on an occurrence ending in the last byte
\* of a later run than it starts in
C7_Witness ==
    /\ IsSpanning /\ result = Ok
    /\ RunOfByte(pre, SpanLast(pre, call.chunk))
         > RunOfByte(pre, SpanFirst(pre, call.chunk))
    /\ SpanLast(pre, call.chunk) = Len(Concat(pre)) - 1

\* C8: modify with a non-empty chunk returns ChunkNotFound exactly when no
\* single run's text contains chunk, and succeeds otherwise.
C8_ModifyFoundIff ==
    (IsModify /\ call.chunk # <<>>) =>
        IF InSomeRun(pre, call.chunk)
          THEN result = Ok
          ELSE result.kind = "ChunkNotFound"

\* modify returned ChunkNotFound for a chunk that occurs in the concatenated
\* text, across a run boundary
C8_Witness ==
    /\ IsModify /\ result.kind = "ChunkNotFound"
    /\ Contains(Concat(pre), call.chunk)

\* C9: a successful modify leaves every run before and every run after the
\* first matching run as it was, in the same order.
C9_ModifyFrame ==
    (IsModify /\ result = Ok) =>
        LET i == FirstRunWith(pre, call.chunk)
            after == Len(pre) - i
        IN /\ Len(raw) >= Len(pre)
           /\ SubSeq(raw, 1, i - 1) = SubSeq(pre, 1, i - 1)
           /\ SubSeq(raw, Len(raw) - after + 1, Len(raw))
                = SubSeq(pre, i + 1, Len(pre))

\* a successful modify on a paragraph where a later run holds the chunk too
C9_Witness ==
    /\ IsModify /\ result = Ok
    /\ \E j \in 1..Len(pre) :
         /\ j > FirstRunWith(pre, call.chunk)
         /\ Contains(pre[j].text, call.chunk)

\* C10 as claimed: no reachable paragraph has a run with empty text.
C10_NeverEmptyRun == NoEmptyRun(raw)

\* C10 amended: no call makes the first run with empty text, unless it is an
\* add or insert that was given one: add and insert of a run with text,
\* modify and modify_spanning keep a paragraph free of empty runs.
C10_NoEmptyRunKept ==
    (/\ call.op \in {"add", "insert", "modify", "modify_spanning"}
     /\ NoEmptyRun(pre)
     /\ call.op \in {"add", "insert"} => call.chunk # <<>>)
    => NoEmptyRun(raw)

\* a successful modify whose chunk starts the matched run of a paragraph
\* with no empty run: the empty prefix is left out
C10_Witness ==
    /\ IsModify /\ result = Ok
    /\ NoEmptyRun(pre)
    /\ FirstOccurrence(pre[FirstRunWith(pre, call.chunk)].text, call.chunk) = 0

(***************************************************************************)
(* C11, C12                                                                *)
(***************************************************************************)

\* runs s..e of p, whole, are where chunk first occurs in the whole text
IsFirstBlock(p, chunk, s, e) ==
    /\ Concat(SubSeq(p, s, e)) = chunk
    /\ Contains(Concat(p), chunk)
    /\ SpanFirst(p, chunk) = LenBefore(p, s)

\* C11: in a paragraph without empty runs, when chunk is the text of a block
\* of consecutive whole runs and the block is where chunk first occurs, a
\* successful modify_spanning puts one run (chunk, new style) in the block's
\* place, with no empty run beside it; the whole paragraph becomes one run.
C11_FullConsumption ==
    (IsSpanning /\ result = Ok /\ NoEmptyRun(pre)) =>
        \A s \in 1..Len(pre) : \A e \in s..Len(pre) :
            IsFirstBlock(pre, call.chunk, s, e) =>
                /\ raw = SubSeq(pre, 1, s - 1)
                           \o <<[text |-> call.chunk, style |-> call.style]>>
                           \o SubSeq(pre, e + 1, Len(pre))
                /\ NoEmptyRun(raw)
                /\ (s = 1 /\ e = Len(pre)) => Len(raw) = 1

\* a successful spanning call whose chunk is the text of all the runs of a
\* paragraph of several runs, none empty
C11_Witness ==
    /\ IsSpanning /\ result = Ok /\ NoEmptyRun(pre)
    /\ Len(pre) >= 2
    /\ IsFirstBlock(pre, call.chunk, 1, Len(pre))

SameStyle(p, k) == p[k].style = p[k + 1].style

NoAdjacentSameStyle(p) == \A k \in 1..(Len(p) - 1) : ~SameStyle(p, k)

\* the place in the new run list of the run that holds the restyled chunk
ChunkRunIndex ==
    IF IsModify
      THEN LET i == FirstRunWith(pre, call.chunk)
           IN IF FirstOccurrence(pre[i].text, call.chunk) = 0 THEN i ELSE i + 1
      ELSE LET s == RunOfByte(pre, SpanFirst(pre, call.chunk))
           IN IF SpanFirst(pre, call.chunk) = LenBefore(pre, s)
                THEN s ELSE s + 1

\* C12 as claimed: after a successful modify or modify_spanning no two
\* adjacent runs have the same Style.
C12_NoAdjacentSameStyle ==
    ((IsModify \/ IsSpanning) /\ result = Ok) => NoAdjacentSameStyle(raw)

\* C12 amended: after a successful modify or modify_spanning, two adjacent
\* runs have the same Style only if one of them is the restyled chunk's run
\* or they come from two runs that were adjacent with the same Style before
\* the call: runs are split, never merged, and no other style changes.
C12_SameStyleOnlyInherited ==
    ((IsModify \/ IsSpanning) /\ result = Ok) =>
        /\ raw[ChunkRunIndex] = [text |-> call.chunk, style |-> call.style]
        /\ \A k \in 1..(Len(raw) - 1) :
             (SameStyle(raw, k) /\ k # ChunkRunIndex /\ k + 1 # ChunkRunIndex)
             => IF k < ChunkRunIndex
                  THEN SameStyle(pre, k)
                  ELSE SameStyle(pre, Len(pre) - (Len(raw) - k))

\* a successful modify that leaves the chunk's run next to a run of the
\* same Style, in a paragraph that had no such pair before
C12_Witness ==
    /\ IsModify /\ result = Ok
    /\ NoAdjacentSameStyle(pre)
    /\ ~NoAdjacentSameStyle(raw)


(***************************************************************************)
(* Saving: the docx_rs document built from the paragraphs and the         *)
(* outcomes of creating the file and packing into it.                      *)
(***************************************************************************)
\* the string slice &s[1..]: from the second byte on; it panics on an
\* empty string (every string of the model is ASCII, so byte 1 is a
\* character boundary)
SliceFrom1(s) == IF Len(s) < 1 THEN "Panic" ELSE SubSeq(s, 2, Len(s))

\* apply_to_raw with the colours handed over as they are stored
apply_to_raw_KeepsHash(t) ==
    [text |-> t.text,
     fonts |-> t.style.font,
     size |-> t.style.size,
     color |-> t.style.font_color,
     bold |-> t.style.bold,
     italic |-> t.style.italic,
     underline |-> IF t.style.underline # "None"
                     THEN UnderlineStyle_fmt(t.style.underline) ELSE "None",
     highlight |-> t.style.highlight_color,
     panic |-> FALSE]

\* StyledText::apply_to_raw: the docx_rs Run built from a StyledText, as
\* the record of what the builder calls set
apply_to_raw(t) ==
    [text |-> t.text,
     fonts |-> t.style.font,
     size |-> t.style.size,
     color |-> SliceFrom1(t.style.font_color),
     bold |-> IF t.style.bold THEN TRUE ELSE FALSE,
     italic |-> IF t.style.italic THEN TRUE ELSE FALSE,
     underline |-> IF t.style.underline # "None"
                     THEN UnderlineStyle_fmt(t.style.underline) ELSE "None",
     highlight |-> IF t.style.highlight_color # "None"
                     THEN SliceFrom1(t.style.highlight_color) ELSE "None",
     panic |-> \/ Len(t.style.font_color) < 1
               \/ /\ t.style.highlight_color # "None"
                  /\ Len(t.style.highlight_color) < 1]

\* the loops of save_as_docx: one Paragraph per StyledParagraph, one Run
\* per StyledText
BuildDocx(c) ==
    [i \in 1..Len(c) |-> [j \in 1..Len(c[i]) |-> apply_to_raw(c[i][j])]]

\* the results of save_as_docx
SaveOk == [kind |-> "Ok", value |-> <<>>]

IoError == [kind |-> "Io", value |-> <<>>]

DocxPackaging == [kind |-> "DocxPackaging", value |-> <<>>]

\* what File::create and pack answer: both succeed, the file cannot be
\* created, the encoder fails on the document, a write to the created
\* file fails inside pack
EnvOutcomes == {"Ok", "CreateFails", "PackEncoderFails", "PackWriteFails"}

\* Document::save_as_docx
save_as_docx(c, env) ==
    LET document == BuildDocx(c)
    IN IF \E i \in 1..Len(c) : \E j \in 1..Len(c[i]) : document[i][j].panic
         THEN [result |-> DocPanic, message |-> "", docx |-> NoDocx]
       ELSE IF env = "CreateFails"
         THEN [result |-> IoError, message |-> env, docx |-> NoDocx]
       ELSE IF env # "Ok"
         THEN [result |-> DocxPackaging, message |-> env,
               docx |-> Docx(document)]
       ELSE [result |-> SaveOk, message |-> "", docx |-> Docx(document)]

(***************************************************************************)
(* The StyledText as a state machine: a caller sends it style commands,    *)
(* one call at a time, each with arguments drawn from the sets below and   *)
(* with any answer of the font oracle.                                     *)
(***************************************************************************)
\* the colour strings callers pass: well-formed ones of both lengths, and
\* ones off by the marker, by the length, or by one character next to the
\* ranges of the hexadecimal digits
HexInputs ==
    {"#09afAF", "#09afAF09", "", "#", "09afAF", "09afAF0", "#09afA",
     "#09afAF0", "#09afAF090", "#GGHHII", "#09afAG", "#g9afAF", "#09afAF0G",
     "##09afA", "#09 fAF", "#/9afAF", "#:9afAF", "#@9afAF", "#G9afAF",
     "09afAF#"}

Sizes == {14, 255}

FontNames == {"Arial", "DefinitelyNotAFontName123"}

OracleOutcomes == {"Ok", "NotFound", "CannotAccessSource"}

Commands ==
    {Command("Bold", "None", 0, "None"), Command("Italic", "None", 0, "None")}
    \cup {Command("Underline", u, 0, "None") : u \in {"None"} \cup UnderlineStyles}
    \cup {Command("Size", "None", n, "None") : n \in Sizes}
    \cup {Command("Color", c, 0, "None") : c \in HexInputs}
    \cup {Command("Highlight", c, 0, "None") : c \in {"None"} \cup HexInputs}
    \cup {Command("Font", f, 0, o) : f \in FontNames, o \in OracleOutcomes}

StyleReady == cmd.kind = "idle"

StyleReturn ==
    /\ ~StyleReady
    /\ cmd' = NoCommand
    /\ st_pre' = st
    /\ st_result' = StyleOk
    /\ st_out' = ""
    /\ UNCHANGED st
    /\ docx' = NoDocx
    /\ UNCHANGED <<content, metadata, doc_pre, doc_call, doc_result, doc_out,
                   doc_info>>
    /\ UNCHANGED <<paraVars, legacyVars, dialogVars>>

ChangeStyleCall ==
    /\ StyleReady
    /\ \E command \in Commands :
         LET r == change_style(st, command)
         IN /\ cmd' = command
            /\ st' = r.st
            /\ st_result' = r.result
    /\ st_pre' = st
    /\ UNCHANGED st_out
    /\ UNCHANGED <<paraVars, docVars, legacyVars, dialogVars>>

\* format!("{}", style)
FmtCall ==
    /\ StyleReady
    /\ cmd' = Command("fmt", "None", 0, "None")
    /\ st_out' = Style_fmt(st.style)
    /\ st_pre' = st
    /\ UNCHANGED <<st, st_result>>
    /\ UNCHANGED <<paraVars, docVars, legacyVars, dialogVars>>

ApplyStyleTaggingCall ==
    /\ StyleReady
    /\ cmd' = Command("apply_style_tagging", "None", 0, "None")
    /\ st_out' = apply_style_tagging(st)
    /\ st_pre' = st
    /\ UNCHANGED <<st, st_result>>
    /\ UNCHANGED <<paraVars, docVars, legacyVars, dialogVars>>

\* the content of a document made around a StyledText: a paragraph of it
\* alone, a paragraph without runs, a paragraph of a plain run and it
StyledContent(t) ==
    <<<<t>>, <<>>, <<StyledText_new(<<"b">>, Style_new), t>>>>

\* Document::with_content(title, content).save_as_docx(path), the content
\* made around the StyledText
SaveStyledCall ==
    /\ StyleReady
    /\ \E env \in EnvOutcomes :
         LET r == save_as_docx(StyledContent(st), env)
         IN /\ cmd' = Command("save_as_docx", "None", 0, env)
            /\ st_result' = [kind |-> r.result.kind, arg |-> "",
                             cause |-> r.message]
            /\ docx' = r.docx
    /\ st_pre' = st
    /\ UNCHANGED <<st, st_out>>
    /\ UNCHANGED <<content, metadata, doc_pre, doc_call, doc_result, doc_out,
                   doc_info>>
    /\ UNCHANGED <<paraVars, legacyVars, dialogVars>>

NextStyle ==
    \/ ChangeStyleCall
    \/ FmtCall
    \/ ApplyStyleTaggingCall
    \/ SaveStyledCall
    \/ StyleReturn

SpecStyle == Init /\ [][NextStyle]_vars

(***************************************************************************)
(* What the style claims are stated in.                                    *)
(***************************************************************************)
CommandKinds ==
    {"Bold", "Italic", "Underline", "Size", "Color", "Highlight", "Font"}

\* the call just made is a change_style
IsChangeStyle == cmd.kind \in CommandKinds

Digits == {"0", "1", "2", "3", "4", "5", "6", "7", "8", "9"}

Letters == {"a", "b", "c", "d", "e", "f"}

CapitalLetters == {"A", "B", "C", "D", "E", "F"}

\* '#' followed by exactly 6 or exactly 8 hexadecimal digits
IsHexColor(s) ==
    /\ Len(s) \in {7, 9}
    /\ SubSeq(s, 1, 1) = "#"
    /\ \A i \in 2..Len(s) :
         SubSeq(s, i, i) \in Digits \cup Letters \cup CapitalLetters

RECURSIVE Join(_, _)
Join(segments, sep) ==
    IF Len(segments) = 1 THEN segments[1]
    ELSE segments[1] \o sep \o Join(Tail(segments), sep)

\* the canonical name of an underline variant: the variant's name in
\* lowercase-camelCase
CanonicalName(u) ==
    LET first == SubSeq(u, 1, 1)
        lower == CASE first = "S" -> "s" [] first = "W" -> "w"
                   [] first = "D" -> "d" [] first = "T" -> "t"
    IN lower \o SubSeq(u, 2, Len(u))

\* the segments of the canonical tag of a style, in order
TagSegments(s) ==
    (IF s.bold THEN <<"bold">> ELSE <<>>)
    \o (IF s.italic THEN <<"italic">> ELSE <<>>)
    \o (IF s.underline = "None" THEN <<>>
        ELSE <<"underline(" \o CanonicalName(s.underline) \o ")">>)
    \o (IF s.highlight_color = "None" THEN <<>>
        ELSE <<"hc(" \o s.highlight_color \o ")">>)
    \o <<"pt(" \o ToString(s.size) \o ")", s.font,
         "fc(" \o s.font_color \o ")">>

(***************************************************************************)
(* C13                                                                     *)
(***************************************************************************)
\* C13: a change_style that returns an error (a colour or highlight that
\* is not a valid hex colour, a font the oracle rejects or fails on) leaves
\* the StyledText's text and every field of its style as they were; the
\* text is never touched, and the style differs from the one before the
\* call only when the call returned Ok.
C13_FailureLeavesUnchanged ==
    IsChangeStyle =>
        /\ st.text = st_pre.text
        /\ (st_result # StyleOk) => (st.style = st_pre.style)
        /\ (st.style # st_pre.style) => (st_result = StyleOk)

\* a font query fails on a StyledText whose style has already been changed
C13_Witness ==
    /\ cmd.kind = "Font"
    /\ st_result.kind = "FontQueryError"
    /\ st_pre.style # Style_new
    /\ st = st_pre

(***************************************************************************)
(* C14                                                                     *)
(***************************************************************************)
\* C14: in every style the StyledText ever has, before or after any
\* command, successful or failed, font_color is '#' followed by exactly 6
\* or 8 hex digits and highlight_color is absent or of that same form.
C14_ColorsAreHex ==
    \A s \in {st.style, st_pre.style} :
        /\ IsHexColor(s.font_color)
        /\ s.highlight_color = "None" \/ IsHexColor(s.highlight_color)

\* a highlight is rejected after another one was accepted
C14_Witness ==
    /\ cmd.kind = "Highlight"
    /\ st_result.kind = "InvalidHexColor"
    /\ st.style.highlight_color # "None"
    /\ st.style.font_color # Style_new.font_color

(***************************************************************************)
(* C15                                                                     *)
(***************************************************************************)
\* C15: a colour command with string s, and a highlight command with
\* Some(s), succeed exactly when s is '#' followed by exactly 6 or 8 hex
\* digits, and then store s; otherwise they fail with InvalidHexColor
\* carrying s.  A highlight command with None always succeeds and clears
\* the highlight.
C15_HexAcceptance ==
    /\ cmd.kind = "Color" =>
         IF IsHexColor(cmd.arg)
           THEN /\ st_result = StyleOk
                /\ st.style = [st_pre.style EXCEPT !.font_color = cmd.arg]
           ELSE st_result = [kind |-> "InvalidHexColor", arg |-> cmd.arg,
                             cause |-> ""]
    /\ cmd.kind = "Highlight" =>
         IF cmd.arg = "None" \/ IsHexColor(cmd.arg)
           THEN /\ st_result = StyleOk
                /\ st.style = [st_pre.style EXCEPT !.highlight_color = cmd.arg]
           ELSE st_result = [kind |-> "InvalidHexColor", arg |-> cmd.arg,
                             cause |-> ""]

\* an 8-digit colour is accepted over a style that has a highlight
C15_Witness ==
    /\ cmd.kind = "Color"
    /\ Len(cmd.arg) = 9
    /\ st_result = StyleOk
    /\ st.style.font_color = cmd.arg
    /\ st_pre.style.font_color # cmd.arg
    /\ st_pre.style.highlight_color # "None"

(***************************************************************************)
(* C16                                                                     *)
(***************************************************************************)
\* C16: a font command maps the oracle's answer for that call one to one:
\* Ok gives the style with font = name and every other field unchanged;
\* NotFound gives FontNotFound(name); any other failure gives
\* FontQueryError(name, cause) and never FontNotFound.  The answer is taken
\* on every call, also when name is the font the style already has.
C16_FontOracle ==
    cmd.kind = "Font" =>
        CASE cmd.oracle = "Ok" ->
               /\ st_result = StyleOk
               /\ st.style = [st_pre.style EXCEPT !.font = cmd.arg]
          [] cmd.oracle = "NotFound" ->
               st_result = [kind |-> "FontNotFound", arg |-> cmd.arg,
                            cause |-> ""]
          [] OTHER ->
               /\ st_result = [kind |-> "FontQueryError", arg |-> cmd.arg,
                               cause |-> cmd.oracle]
               /\ st_result.kind # "FontNotFound"

\* the query fails, for a cause other than NotFound, on the name the style
\* already carries
C16_Witness ==
    /\ cmd.kind = "Font"
    /\ cmd.oracle \notin {"Ok", "NotFound"}
    /\ cmd.arg = st_pre.style.font
    /\ st_pre.style.font # Style_new.font
    /\ st_result.kind = "FontQueryError"

(***************************************************************************)
(* C17                                                                     *)
(***************************************************************************)
\* C17: the canonical tag of a style is, in this order, 'bold;' when bold,
\* 'italic;' when italic, 'underline(<variant>);' when an underline is
\* set, 'hc(<highlight>);' when a highlight is set, and then always
\* 'pt(<size>);<font>;fc(<font_color>)': its segments joined by ';'.
C17_CanonicalTag ==
    cmd.kind = "fmt" => st_out = Join(TagSegments(st.style), ";")

\* the tag of a style with all four optional segments
C17_Witness ==
    /\ cmd.kind = "fmt"
    /\ st.style.bold /\ st.style.italic
    /\ st.style.underline = "DashDotDotHeavy"
    /\ st.style.highlight_color = "#09afAF09"
    /\ st.style.size = 255
    /\ st_out = "bold;italic;underline(dashDotDotHeavy);hc(#09afAF09);pt(255);Arial;fc(#000000)"

(***************************************************************************)
(* C18                                                                     *)
(***************************************************************************)
\* a run rendered with its tag: '[[tag]]text[[/tag]]'
TaggedRun(run) ==
    LET tag == Join(TagSegments(run.style), ";")
    IN "[[" \o tag \o "]]" \o Str(run.text) \o "[[/" \o tag \o "]]"

\* the renderings of the first n runs of p, one after the other
RECURSIVE TaggedUpTo(_, _)
TaggedUpTo(p, n) ==
    IF n = 0 THEN "" ELSE TaggedUpTo(p, n - 1) \o TaggedRun(p[n])

IsParse == call.op = "parse_as_raw_tagged_text"

\* C18: parse_as_raw_tagged_text returns the concatenation, in run order
\* and with nothing between the runs, of '[[tag]]text[[/tag]]' for each
\* run, tag being the run's canonical style tag; for a paragraph without
\* runs it returns the empty string.  The paragraph is not changed.
C18_TaggedText ==
    IsParse =>
        /\ output = TaggedUpTo(pre, Len(pre))
        /\ (pre = <<>>) => (output = "")
        /\ raw = pre

\* a paragraph of a plain run and a bold run is rendered
C18_Witness ==
    /\ IsParse
    /\ raw = <<[text |-> <<"a">>, style |-> Style_new],
               [text |-> <<"b", "a">>, style |-> switch_bold(Style_new)]>>
    /\ output = "[[pt(11);Arial;fc(#000000)]]a[[/pt(11);Arial;fc(#000000)]]"
                \o "[[bold;pt(11);Arial;fc(#000000)]]ba[[/bold;pt(11);Arial;fc(#000000)]]"

(***************************************************************************)
(* Document: an ordered list of paragraphs and a metadata record.          *)
(***************************************************************************)
\* Vec::swap_remove in the place of Vec::remove: the last element takes the
\* place of the removed one
VecRemove_Swap(v, index) ==
    IF index >= Len(v) THEN [content |-> v, result |-> DocPanic]
    ELSE [content |-> IF index + 1 = Len(v) THEN SubSeq(v, 1, index)
                      ELSE SubSeq(v, 1, index) \o <<v[Len(v)]>>
                           \o SubSeq(v, index + 2, Len(v) - 1),
          result |-> SomeParagraph(v[index + 1])]

\* Vec::remove: the element and the rest; an index past the end panics
VecRemove(v, index) ==
    IF index >= Len(v) THEN [content |-> v, result |-> DocPanic]
    ELSE [content |-> SubSeq(v, 1, index) \o SubSeq(v, index + 2, Len(v)),
          result |-> SomeParagraph(v[index + 1])]

\* remove_paragraph letting the index one past the end through
remove_paragraph_PastEnd(c, index) ==
    IF index <= Len(c) THEN VecRemove(c, index)
    ELSE [content |-> c, result |-> NoParagraph]

\* Document::remove_paragraph
remove_paragraph(c, index) ==
    IF index < Len(c) THEN VecRemove(c, index)
    ELSE [content |-> c, result |-> NoParagraph]

\* Document::get_paragraph and get_paragraph_mut: slice get and get_mut
get_paragraph(c, index) ==
    IF index < Len(c) THEN SomeParagraph(c[index + 1]) ELSE NoParagraph

\* the inner loop of get_text: the runs of one paragraph
RECURSIVE RunsText(_, _)
RunsText(runs, tagged) ==
    IF runs = <<>> THEN ""
    ELSE (IF tagged THEN apply_style_tagging(Head(runs))
          ELSE Str(Head(runs).text))
         \o RunsText(Tail(runs), tagged)

\* get_text ending every paragraph with a line break
RECURSIVE get_text_LineBreaks(_, _)
get_text_LineBreaks(c, tagged) ==
    IF c = <<>> THEN ""
    ELSE RunsText(Head(c), tagged) \o "\n"
         \o get_text_LineBreaks(Tail(c), tagged)

\* Document::get_text
RECURSIVE get_text(_, _)
get_text(c, tagged) ==
    IF c = <<>> THEN ""
    ELSE RunsText(Head(c), tagged) \o get_text(Tail(c), tagged)

(***************************************************************************)
(* The document as a state machine: a caller holds it and makes one call   *)
(* at a time, with paragraphs, indices and metadata drawn from the sets    *)
(* below.                                                                  *)
(***************************************************************************)
\* the paragraphs callers add: without runs, of one run, of two runs
Paragraphs ==
    {<<>>,
     <<StyledText_new(<<"a">>, Style_new)>>,
     <<StyledText_new(<<"a", "b">>, switch_bold(Style_new)),
       StyledText_new(<<"b">>, Style_new)>>}

\* the indices callers pass: every valid one and two past the end
Indices == 0..(MaxParagraphs + 1)

Metadatas ==
    {Metadata_new("Untitled"),
     [Metadata_new("Report") EXCEPT !.description = "Quarterly"]}

DocReady == doc_call.op = "idle"

DocState == [content |-> content, metadata |-> metadata]

DocReturn ==
    /\ ~DocReady
    /\ doc_result.kind # "Panic"
    /\ doc_call' = DocIdle
    /\ doc_pre' = DocState
    /\ doc_result' = DocUnit
    /\ doc_out' = ""
    /\ doc_info' = NoInfo
    /\ docx' = NoDocx
    /\ UNCHANGED <<content, metadata>>
    /\ UNCHANGED <<paraVars, styleVars, legacyVars, dialogVars>>

SetMetadata ==
    /\ DocReady
    /\ \E m \in Metadatas : metadata' = m
    /\ doc_call' = DocCall("set_metadata", 0, FALSE)
    /\ doc_pre' = DocState
    /\ doc_result' = DocUnit
    /\ UNCHANGED <<content, doc_out>>
    /\ UNCHANGED <<paraVars, styleVars, legacyVars, dialogVars, doc_info, docx>>

AddParagraph ==
    /\ DocReady
    /\ Len(content) < MaxParagraphs
    /\ \E paragraph \in Paragraphs : content' = Append(content, paragraph)
    /\ doc_call' = [DocCall("add_paragraph", Len(content), FALSE)
                       EXCEPT !.paragraph = content'[Len(content')]]
    /\ doc_pre' = DocState
    /\ doc_result' = DocUnit
    /\ UNCHANGED <<metadata, doc_out>>
    /\ UNCHANGED <<paraVars, styleVars, legacyVars, dialogVars, doc_info, docx>>

RemoveParagraph ==
    /\ DocReady
    /\ \E index \in Indices :
         LET r == remove_paragraph(content, index)
         IN /\ doc_call' = DocCall("remove_paragraph", index, FALSE)
            /\ content' = r.content
            /\ doc_result' = r.result
    /\ doc_pre' = DocState
    /\ UNCHANGED <<metadata, doc_out>>
    /\ UNCHANGED <<paraVars, styleVars, legacyVars, dialogVars, doc_info, docx>>

GetParagraph ==
    /\ DocReady
    /\ \E index \in Indices :
         /\ doc_call' = DocCall("get_paragraph", index, FALSE)
         /\ doc_result' = get_paragraph(content, index)
    /\ doc_pre' = DocState
    /\ UNCHANGED <<content, metadata, doc_out>>
    /\ UNCHANGED <<paraVars, styleVars, legacyVars, dialogVars, doc_info, docx>>

GetParagraphMut ==
    /\ DocReady
    /\ \E index \in Indices :
         /\ doc_call' = DocCall("get_paragraph_mut", index, FALSE)
         /\ doc_result' = get_paragraph(content, index)
    /\ doc_pre' = DocState
    /\ UNCHANGED <<content, metadata, doc_out>>
    /\ UNCHANGED <<paraVars, styleVars, legacyVars, dialogVars, doc_info, docx>>

GetText ==
    /\ DocReady
    /\ \E tagged \in BOOLEAN :
         /\ doc_call' = DocCall("get_text", 0, tagged)
         /\ doc_out' = get_text(content, tagged)
    /\ doc_pre' = DocState
    /\ doc_result' = DocUnit
    /\ UNCHANGED <<content, metadata>>
    /\ UNCHANGED <<paraVars, styleVars, legacyVars, dialogVars, doc_info, docx>>

ParagraphCount ==
    /\ DocReady
    /\ doc_call' = DocCall("paragraph_count", 0, FALSE)
    /\ doc_info' = Info(Len(content), FALSE)
    /\ doc_pre' = DocState
    /\ doc_result' = DocUnit
    /\ UNCHANGED <<content, metadata, doc_out>>
    /\ UNCHANGED <<paraVars, styleVars, legacyVars, dialogVars, docx>>

\* is_empty: Vec::is_empty
IsEmpty ==
    /\ DocReady
    /\ doc_call' = DocCall("is_empty", 0, FALSE)
    /\ doc_info' = Info(0, content = <<>>)
    /\ doc_pre' = DocState
    /\ doc_result' = DocUnit
    /\ UNCHANGED <<content, metadata, doc_out>>
    /\ UNCHANGED <<paraVars, styleVars, legacyVars, dialogVars, docx>>

\* save_as_docx; env is what the file system and the encoder answer
SaveAsDocx ==
    /\ DocReady
    /\ \E env \in EnvOutcomes :
         LET r == save_as_docx(content, env)
         IN /\ doc_call' = [DocCall("save_as_docx", 0, FALSE)
                              EXCEPT !.env = env]
            /\ doc_result' = r.result
            /\ doc_out' = r.message
            /\ docx' = r.docx
    /\ doc_pre' = DocState
    /\ UNCHANGED <<content, metadata>>
    /\ UNCHANGED <<paraVars, styleVars, legacyVars, dialogVars, doc_info>>

\* the chunks callers restyle inside a document: empty, inside a run,
\* across two runs, nowhere
EditChunks == {<<>>, <<"b">>, <<"b", "b">>, <<"b", "a">>}

\* the write through the &mut StyledParagraph that get_paragraph_mut gave
WriteThrough(c, index, paragraph) == [c EXCEPT ![index + 1] = paragraph]

\* get_paragraph_mut(index) and, on the paragraph it gives, modify or
\* modify_spanning; with None the caller has no paragraph to call them on
EditParagraph ==
    /\ DocReady
    /\ \E index \in Indices, op \in {"modify", "modify_spanning"},
          style \in ModStyles, chunk \in EditChunks :
         LET got == get_paragraph(content, index)
             r == IF op = "modify" THEN Modify(got.value, style, chunk)
                  ELSE ModifySpanning(got.value, style, chunk)
         IN /\ doc_call' = [DocCall(op, index, FALSE) EXCEPT !.chunk = chunk]
            /\ IF got.kind = "None"
                 THEN /\ content' = content
                      /\ doc_result' = NoParagraph
                 ELSE /\ content' = WriteThrough(content, index, r.raw)
                      /\ doc_result' = [kind |-> r.result.kind, value |-> <<>>]
    /\ doc_pre' = DocState
    /\ UNCHANGED <<metadata, doc_out>>
    /\ UNCHANGED <<paraVars, styleVars, legacyVars, dialogVars, doc_info, docx>>

NextDocumentEdit == SetMetadata \/ AddParagraph \/ EditParagraph \/ DocReturn

SpecDocumentEdit == Init /\ [][NextDocumentEdit]_vars

NextDocument ==
    \/ SetMetadata
    \/ AddParagraph
    \/ RemoveParagraph
    \/ GetParagraph
    \/ GetParagraphMut
    \/ GetText
    \/ ParagraphCount
    \/ IsEmpty
    \/ SaveAsDocx
    \/ DocReturn

SpecDocument == Init /\ [][NextDocument]_vars

(***************************************************************************)
(* C19                                                                     *)
(***************************************************************************)
\* every run of the document, paragraph after paragraph
RECURSIVE DocRunsUpTo(_, _)
DocRunsUpTo(c, n) == IF n = 0 THEN <<>> ELSE DocRunsUpTo(c, n - 1) \o c[n]

DocRuns(c) == DocRunsUpTo(c, Len(c))

\* C19: get_text(false) returns the texts of all runs of all paragraphs
\* concatenated in document order, with nothing added between runs or
\* between paragraphs; get_text(true) returns the same concatenation with
\* each run rendered as '[[tag]]text[[/tag]]'; both return the empty
\* string for a document without paragraphs.  The document is not changed.
C19_GetText ==
    (doc_call.op = "get_text") =>
        /\ doc_out = IF doc_call.tagged
                       THEN TaggedUpTo(DocRuns(content), Len(DocRuns(content)))
                       ELSE Str(Concat(DocRuns(content)))
        /\ (content = <<>>) => (doc_out = "")
        /\ DocState = doc_pre

\* the plain text of a document of a two-run paragraph, a paragraph
\* without runs and a one-run paragraph
C19_Witness ==
    /\ doc_call.op = "get_text"
    /\ ~doc_call.tagged
    /\ Len(content) = 3
    /\ Len(content[1]) = 2 /\ Len(content[2]) = 0 /\ Len(content[3]) = 1
    /\ doc_out = "abba"

(***************************************************************************)
(* C20                                                                     *)
(***************************************************************************)
\* C20: remove_paragraph, get_paragraph and get_paragraph_mut called with
\* an index at or past the number of paragraphs return None, do not panic,
\* and leave the paragraphs and the metadata as they were.
C20_OutOfBounds ==
    (/\ doc_call.op \in {"remove_paragraph", "get_paragraph", "get_paragraph_mut"}
     /\ doc_call.idx >= Len(doc_pre.content)) =>
        /\ doc_result = NoParagraph
        /\ content = doc_pre.content
        /\ metadata = doc_pre.metadata

\* remove_paragraph(len) on a document with paragraphs and replaced
\* metadata
C20_Witness ==
    /\ doc_call.op = "remove_paragraph"
    /\ doc_call.idx = Len(doc_pre.content)
    /\ Len(content) >= 2
    /\ metadata # Metadata_new("Untitled")
    /\ doc_result = NoParagraph

(***************************************************************************)
(* C21                                                                     *)
(***************************************************************************)
\* C21: the paragraph list behaves as a sequence.  add_paragraph puts the
\* paragraph after all the others, which stay as they were;
\* remove_paragraph(i) with i below the count returns the paragraph that
\* was at index i and keeps the others in their order; paragraph_count
\* returns the number of paragraphs held; is_empty returns true exactly
\* when that number is 0.
C21_ParagraphSequence ==
    /\ doc_call.op = "add_paragraph" =>
         /\ Len(content) = Len(doc_pre.content) + 1
         /\ content[Len(content)] = doc_call.paragraph
         /\ \A k \in 1..Len(doc_pre.content) : content[k] = doc_pre.content[k]
    /\ (doc_call.op = "remove_paragraph"
        /\ doc_call.idx < Len(doc_pre.content)) =>
         /\ doc_result = [kind |-> "Some",
                          value |-> doc_pre.content[doc_call.idx + 1]]
         /\ Len(content) = Len(doc_pre.content) - 1
         /\ \A k \in 1..Len(content) :
              content[k] = IF k <= doc_call.idx THEN doc_pre.content[k]
                           ELSE doc_pre.content[k + 1]
    /\ doc_call.op = "paragraph_count" =>
         /\ doc_info.count = Cardinality(DOMAIN content)
         /\ content = doc_pre.content
    /\ doc_call.op = "is_empty" =>
         /\ doc_info.empty <=> (Cardinality(DOMAIN content) = 0)
         /\ content = doc_pre.content

\* the first of three different paragraphs is removed
C21_Witness ==
    /\ doc_call.op = "remove_paragraph"
    /\ doc_call.idx = 0
    /\ Len(doc_pre.content) = 3
    /\ doc_pre.content[1] # doc_pre.content[2]
    /\ doc_pre.content[2] # doc_pre.content[3]
    /\ doc_pre.content[1] # doc_pre.content[3]
    /\ content = <<doc_pre.content[2], doc_pre.content[3]>>

(***************************************************************************)
(* C22                                                                     *)
(***************************************************************************)
IsInsert == call.op = "insert"

\* C22: insert(idx, run) with idx at most the run count puts run at
\* position idx, moves the runs formerly at idx and later one position
\* later unchanged, keeps the runs before idx, and grows the run count by
\* one; with idx above the run count it panics, returning no error value,
\* and the run list is as it was.
C22_Insert ==
    IsInsert =>
        IF call.idx <= Len(pre)
          THEN /\ result = Ok
               /\ Len(raw) = Len(pre) + 1
               /\ raw[call.idx + 1] = [text |-> call.chunk, style |-> call.style]
               /\ \A k \in 1..Len(pre) :
                    IF k <= call.idx THEN raw[k] = pre[k]
                    ELSE raw[k + 1] = pre[k]
          ELSE /\ result.kind = "Panic"
               /\ raw = pre

\* a run is inserted before the only run of a paragraph
C22_Witness ==
    /\ IsInsert
    /\ call.idx = 0
    /\ Len(pre) = 1
    /\ result = Ok
    /\ raw[2] = pre[1]
    /\ raw[1] # pre[1]

(***************************************************************************)
(* C23                                                                     *)
(***************************************************************************)
IsSave == doc_call.op = "save_as_docx"

\* C23: save_as_docx returns Io when the target file cannot be created or
\* cannot be written, DocxPackaging and never Io when the encoder fails
\* after the file was created, and Ok otherwise; in every outcome the
\* paragraphs and the metadata are as before the call.
C23_SaveOutcomes ==
    IsSave =>
        /\ doc_call.env \in {"CreateFails", "PackWriteFails"} =>
             doc_result.kind = "Io"
        /\ doc_call.env = "PackEncoderFails" =>
             doc_result.kind = "DocxPackaging"
        /\ doc_call.env = "Ok" => doc_result.kind = "Ok"
        /\ DocState = doc_pre

\* a write to the created file fails during pack, and the call reports a
\* packaging error
C23_Witness ==
    /\ IsSave
    /\ doc_call.env = "PackWriteFails"
    /\ doc_result.kind = "DocxPackaging"
    /\ docx.called
    /\ Len(content) >= 1
    /\ DocState = doc_pre

(***************************************************************************)
(* C24                                                                     *)
(***************************************************************************)
\* the run carries what the StyledText holds, colours without their '#'
RunCarries(run, t) ==
    /\ run.text = t.text
    /\ run.bold = t.style.bold
    /\ run.italic = t.style.italic
    /\ run.size = t.style.size
    /\ run.fonts = t.style.font
    /\ "#" \o run.color = t.style.font_color
    /\ (run.highlight = "None") <=> (t.style.highlight_color = "None")
    /\ (t.style.highlight_color # "None") =>
         ("#" \o run.highlight = t.style.highlight_color)
    /\ (run.underline = "None") <=> (t.style.underline = "None")
    /\ (t.style.underline # "None") =>
         (run.underline = CanonicalName(t.style.underline))

\* C24: save_as_docx hands the encoder one paragraph per StyledParagraph
\* in document order, each with one run per StyledText in run order; each
\* run carries the text, bold, italic, size and font, the font colour
\* without its '#', a highlight exactly when one is set (without its '#')
\* and an underline exactly when one is set, by the variant's canonical
\* name.  Building the runs never panics, for any style the mutators
\* reach; the encoder is reached unless the file could not be created.
C24_EncoderInput ==
    (cmd.kind = "save_as_docx") =>
        LET c == StyledContent(st)
        IN /\ st_result.kind # "Panic"
           /\ docx.called <=> (cmd.oracle # "CreateFails")
           /\ docx.called =>
                /\ Len(docx.paragraphs) = Len(c)
                /\ \A i \in 1..Len(c) :
                     /\ Len(docx.paragraphs[i]) = Len(c[i])
                     /\ \A j \in 1..Len(c[i]) :
                          /\ ~docx.paragraphs[i][j].panic
                          /\ RunCarries(docx.paragraphs[i][j], c[i][j])

\* a document around a bold, underlined, highlighted StyledText with an
\* 8-digit colour is saved
C24_Witness ==
    /\ cmd.kind = "save_as_docx"
    /\ cmd.oracle = "Ok"
    /\ st.style.bold /\ ~st.style.italic
    /\ st.style.underline = "DashLongHeavy"
    /\ st.style.highlight_color = "#09afAF"
    /\ st.style.font_color = "#09afAF09"
    /\ docx.called
    /\ docx.paragraphs[3][2].color = "09afAF09"
    /\ docx.paragraphs[3][2].highlight = "09afAF"
    /\ docx.paragraphs[3][2].underline = "dashLongHeavy"
    /\ docx.paragraphs[3][1].color = "000000"

(***************************************************************************)
(* C25                                                                     *)
(***************************************************************************)
\* the text is a whole number of characters: it does not start inside a
\* character and does not end inside one
WholeCharacters(text) ==
    \A i \in 1..Len(text) :
        /\ (text[i] = "a9") => (i > 1 /\ text[i - 1] = "c3")
        /\ (text[i] = "c3") => (i < Len(text) /\ text[i + 1] = "a9")

HasMultiByte(text) == \E i \in 1..Len(text) : text[i] = "c3"

\* C25: on run texts and chunks with multi-byte characters, modify and
\* modify_spanning never panic on a split offset, every run they leave is
\* a whole number of characters, and the concatenated text is the
\* original one, also when the occurrence crosses a run boundary.
C25_CharBoundaries ==
    (IsModify \/ IsSpanning) =>
        /\ result.kind # "Panic"
        /\ \A k \in 1..Len(raw) : WholeCharacters(raw[k].text)
        /\ Concat(raw) = Concat(pre)

\* an occurrence that starts after a one-byte character of the first run,
\* holds a two-byte character and ends in the second run
C25_Witness ==
    /\ IsSpanning
    /\ result = Ok
    /\ Len(pre) = 2
    /\ pre[1].text = <<"a", "c3", "a9">>
    /\ pre[2].text = <<"a">>
    /\ call.chunk = <<"c3", "a9", "a">>
    /\ raw[1].text = <<"a">>
    /\ raw[2].text = call.chunk

(***************************************************************************)
(* C26                                                                     *)
(***************************************************************************)
\* the style of the run that covers byte pos (0-based) of the paragraph
StyleAt(p, pos) == p[RunOfByte(p, pos)].style

\* the position in the concatenated text where the restyled occurrence
\* starts: for modify the first occurrence inside the first run that holds
\* the chunk, for modify_spanning the first occurrence in the whole text
OccurrenceStart ==
    IF IsModify
      THEN LET i == FirstRunWith(pre, call.chunk)
           IN LenBefore(pre, i) + FirstOccurrence(pre[i].text, call.chunk)
      ELSE SpanFirst(pre, call.chunk)

InOccurrence(pos) ==
    OccurrenceStart <= pos /\ pos < OccurrenceStart + Len(call.chunk)

\* C26: after a successful modify or modify_spanning every position of the
\* concatenated text outside the restyled occurrence is covered by a run
\* of the style that covered it before the call, and every position
\* inside the occurrence by a run of the new style.
C26_PositionFrame ==
    ((IsModify \/ IsSpanning) /\ result = Ok) =>
        /\ Len(Concat(raw)) = Len(Concat(pre))
        /\ \A pos \in 0..(Len(Concat(pre)) - 1) :
             StyleAt(raw, pos) = IF InOccurrence(pos) THEN call.style
                                 ELSE StyleAt(pre, pos)

\* an occurrence across two runs of another style than the new one, with
\* a position before it
C26_Witness ==
    /\ IsSpanning
    /\ result = Ok
    /\ Len(pre) = 2
    /\ OccurrenceStart > 0
    /\ RunOfByte(pre, OccurrenceStart)
         # RunOfByte(pre, OccurrenceStart + Len(call.chunk) - 1)
    /\ StyleAt(pre, 0) # call.style
    /\ StyleAt(raw, 0) = StyleAt(pre, 0)
    /\ StyleAt(raw, OccurrenceStart) = call.style

(***************************************************************************)
(* C27                                                                     *)
(***************************************************************************)
IsRepeat == call.op \in {"modify again", "modify_spanning again"}

\* C27: modify and modify_spanning are idempotent: when a call succeeded,
\* the same call made again with the same style and chunk succeeds too
\* and leaves the run list exactly as the first call left it.
C27_Idempotent ==
    IsRepeat => (result = Ok /\ raw = pre)

\* modify_spanning repeated on a paragraph its first call split into a
\* prefix run and the chunk's run
C27_Witness ==
    /\ call.op = "modify_spanning again"
    /\ result = Ok
    /\ Len(raw) = 2
    /\ raw[2] = [text |-> call.chunk, style |-> call.style]
    /\ Len(call.chunk) = 2
    /\ raw[1].style # call.style

(***************************************************************************)
(* C28                                                                     *)
(***************************************************************************)
IsEdit == doc_call.op \in {"modify", "modify_spanning"}

\* C28: modify or modify_spanning called on the paragraph get_paragraph_mut
\* gives leaves every other paragraph, the number and order of the
\* paragraphs and the metadata unchanged, and leaves get_text(false) of
\* the document unchanged, whether the call succeeds or fails.
C28_DocumentFrame ==
    IsEdit =>
        /\ Len(content) = Len(doc_pre.content)
        /\ \A k \in 1..Len(content) :
             (k # doc_call.idx + 1) => (content[k] = doc_pre.content[k])
        /\ metadata = doc_pre.metadata
        /\ get_text(content, FALSE) = get_text(doc_pre.content, FALSE)
        /\ (doc_result.kind # "Ok") => (content = doc_pre.content)

\* a successful modify_spanning re-splits the middle one of three
\* paragraphs, the others holding runs
C28_Witness ==
    /\ doc_call.op = "modify_spanning"
    /\ doc_result.kind = "Ok"
    /\ doc_call.idx = 1
    /\ Len(content) = 3
    /\ content[2] # doc_pre.content[2]
    /\ content[1] # <<>> /\ content[3] # <<>>
    /\ metadata # Metadata_new("Untitled")


\* ---------------------------------------------------------------------
\* The question dialog of gui_utilities::pop_ups
\* ---------------------------------------------------------------------

MaxResponses == 4

\* the responses a dialog with a Yes and a No button can deliver
Responses == {"Yes", "No", "DeleteEvent"}

\* the response closure without the take(): the callback stays in the holder
HandleResponse_NoTake(h, response) ==
    [holder |-> h,
     calls |-> IF h = "Some" THEN <<response = "Yes">> ELSE <<>>,
     destroyed |-> 1]

\* the closure connected to the response signal: take the callback out of
\* the holder and call it if there was one, then destroy the dialog
HandleResponse(h, response) ==
    [holder |-> "None",
     calls |-> IF h = "Some" THEN <<response = "Yes">> ELSE <<>>,
     destroyed |-> 1]

\* one response event is delivered to the dialog
Response ==
    /\ Len(responses) < MaxResponses
    /\ \E response \in Responses :
          LET handled == HandleResponse(holder, response) IN
             /\ holder' = handled.holder
             /\ invoked' = invoked \o handled.calls
             /\ destroys' = destroys + handled.destroyed
             /\ responses' = Append(responses, response)
    /\ UNCHANGED <<paraVars, styleVars, docVars, legacyVars>>

NextDialog == Response

SpecDialog == Init /\ [][NextDialog]_vars

\* C29: over any sequence of response events the callback of a question
\* dialog is invoked at most once, its argument is true exactly when the
\* response that invoked it (the first one) is Yes and false otherwise, and
\* the dialog is destroyed once for each response handled.
C29_CallbackOnce ==
    /\ Len(invoked) <= 1
    /\ responses # <<>> => invoked = <<responses[1] = "Yes">>
    /\ responses = <<>> => invoked = <<>>
    /\ destroys = Len(responses)

\* a No followed by a Yes: the callback ran once, with false
C29_Witness ==
    /\ responses = <<"No", "Yes">>
    /\ invoked = <<FALSE>>
    /\ holder = "None"
    /\ destroys = 2


\* ---------------------------------------------------------------------
\* The styling module of the legacy filemgr crate
\* ---------------------------------------------------------------------

legacy_switch_bold(s) == [s EXCEPT !.bold = ~s.bold]

legacy_switch_italic(s) == [s EXCEPT !.italic = ~s.italic]

legacy_switch_underline(s) == [s EXCEPT !.underline = ~s.underline]

legacy_change_size(s, new_size) == [s EXCEPT !.size = new_size]

\* check_hex of the legacy crate: Err when the string starts with '#', or
\* its length differs from 7 or differs from 9, or everything after the
\* first character is a hexadecimal digit
legacy_check_hex(s) ==
    IF \/ starts_with(s, "#")
       \/ (Len(s) # 7 \/ Len(s) # 9)
       \/ \A i \in 2..Len(s) : is_ascii_hexdigit(SubSeq(s, i, i))
      THEN Err("()")
      ELSE StyleOk

\* check_font of the legacy crate; oracle is what select_family_by_name
\* answers
legacy_check_font(s, oracle) ==
    IF oracle # "Ok" THEN Err("()") ELSE StyleOk

legacy_change_font_color(s, new_color) ==
    IF legacy_check_hex(new_color) # StyleOk THEN Err("()")
    ELSE OkStyle([s EXCEPT !.font_color = new_color])

legacy_change_font_highlight(s, new_color) ==
    IF new_color # "None" /\ legacy_check_hex(new_color) # StyleOk
      THEN Err("()")
      ELSE OkStyle([s EXCEPT !.highlight_color = new_color])

legacy_change_font(s, new_font, oracle) ==
    IF legacy_check_font(new_font, oracle) # StyleOk THEN Err("()")
    ELSE OkStyle([s EXCEPT !.font = new_font])

\* the match of the legacy StyledText::change_style
LegacyApplyCommand(s, command) ==
    CASE command.kind = "Bold" -> OkStyle(legacy_switch_bold(s))
      [] command.kind = "Italic" -> OkStyle(legacy_switch_italic(s))
      [] command.kind = "Underline" -> OkStyle(legacy_switch_underline(s))
      [] command.kind = "Size" -> OkStyle(legacy_change_size(s, command.size))
      [] command.kind = "Color" -> legacy_change_font_color(s, command.arg)
      [] command.kind = "Highlight" ->
             legacy_change_font_highlight(s, command.arg)
      [] command.kind = "Font" ->
             legacy_change_font(s, command.arg, command.oracle)

\* the legacy StyledText::change_style: the new style, or the rollback
\* clone when the mutator returned Err
legacy_change_style(s, command) ==
    LET rollback == s
        new_style == LegacyApplyCommand(s, command)
    IN [style |-> IF new_style.ok THEN new_style.style ELSE rollback,
        result |-> IF new_style.ok THEN "Ok" ELSE "Err"]

LegacyCommands ==
    {Command(k, "None", 0, "None") : k \in {"Bold", "Italic", "Underline"}}
    \cup {Command("Size", "None", n, "None") : n \in Sizes}
    \cup {Command("Color", c, 0, "None") : c \in HexInputs}
    \cup {Command("Highlight", c, 0, "None") : c \in {"None"} \cup HexInputs}
    \cup {Command("Font", f, 0, o) : f \in FontNames, o \in OracleOutcomes}

LegacyReady == lg_cmd.kind = "idle"

LegacyChangeStyleCall ==
    /\ LegacyReady
    /\ \E command \in LegacyCommands :
          LET r == legacy_change_style(lg, command) IN
             /\ lg_pre' = lg
             /\ lg_cmd' = command
             /\ lg' = r.style
             /\ lg_result' = r.result
    /\ UNCHANGED <<paraVars, styleVars, docVars, dialogVars>>

LegacyReturn ==
    /\ ~LegacyReady
    /\ lg_cmd' = NoCommand
    /\ lg_pre' = lg
    /\ lg_result' = "Ok"
    /\ UNCHANGED lg
    /\ UNCHANGED <<paraVars, styleVars, docVars, dialogVars>>

NextLegacy == LegacyChangeStyleCall \/ LegacyReturn

SpecLegacy == Init /\ [][NextLegacy]_vars

\* a colour was handed to change_font_color or change_font_highlight
IsLegacyColorCall ==
    \/ lg_cmd.kind = "Color"
    \/ lg_cmd.kind = "Highlight" /\ lg_cmd.arg # "None"

\* C30: check_hex of the legacy styling module returns Ok for every string
\* that is '#' followed by 6 or 8 hexadecimal digits and Err for every other
\* string, so change_font_color and change_font_highlight accept exactly the
\* valid hex colours and store them.
C30_LegacyCheckHex ==
    IsLegacyColorCall =>
       /\ (legacy_check_hex(lg_cmd.arg) = StyleOk) <=> IsHexColor(lg_cmd.arg)
       /\ (lg_result = "Ok") <=> IsHexColor(lg_cmd.arg)
       /\ IsHexColor(lg_cmd.arg) =>
             IF lg_cmd.kind = "Color" THEN lg.font_color = lg_cmd.arg
             ELSE lg.highlight_color = lg_cmd.arg

\* a valid colour is rejected and the style rolled back
C30_Witness ==
    /\ lg_cmd.kind = "Color"
    /\ lg_cmd.arg = "#09afAF"
    /\ lg_result = "Err"
    /\ lg = lg_pre
    /\ lg.font_color = "#FFFFFF"

====
